---- MODULE Spec2Model ----
(***************************************************************************)
(* The piece/grid simulation engine of the Tetris game in src/main.py:     *)
(* class Tetromino (the piece model) and the game-logic methods of class   *)
(* TetrisGame (is_valid_position, place_piece, clear_lines, update,        *)
(* move_piece, rotate_piece, drop_piece, reset_game) together with the key *)
(* dispatch of TetrisGame.run.  Rendering is not modelled.                 *)
(*                                                                         *)
(* Coordinates are the program's: x is a column, y a row, both 0-based,    *)
(* row 0 at the top.  The grid is a sequence of rows, so the program's     *)
(* grid[y][x] is grid[y + 1][x + 1] here.                                  *)
(***************************************************************************)
EXTENDS Integers, Sequences, FiniteSets, TLC

(***************************************************************************)
(* Size of the playfield.  The program plays on 10 x 20; the model plays   *)
(* on the compact 4 x 6 grid of the specification's end-to-end scenario,   *)
(* on which every kind spawns inside the grid as it does on 10 x 20.       *)
(***************************************************************************)
GRID_WIDTH == 4

GRID_HEIGHT == 6

(* Spec: random.choice returns one of the first NumKinds kinds of          *)
(* KindOrder, and at most MaxLocks pieces are locked between two resets.   *)
NumKinds == 3

MaxLocks == 2

(* SpecAll: random.choice returns any of the seven kinds, and at most      *)
(* MaxLocksAll pieces are locked between two resets.                       *)
MaxLocksAll == 1

(* SpecLines: pieces are locked until MaxLines rows have been cleared.     *)
MaxLines == 104

(* Frame times handed to update: less than an interval, one initial        *)
(* interval, and several intervals at once.                                *)
Dts == {250, 500, 1000}

BLACK == "BLACK"

(* list(TETROMINOES.keys()), in the order of the dictionary (lines 45-147).  *)
KindOrder == <<"I", "O", "T", "S", "Z", "J", "L">>

AllKinds == {KindOrder[i] : i \in 1..Len(KindOrder)}

Kinds == {KindOrder[i] : i \in 1..(IF NumKinds < Len(KindOrder) THEN NumKinds ELSE Len(KindOrder))}

(* The only kind drawn in SpecLines: vertical I pieces fill the four       *)
(* columns and clear four rows at once, a horizontal one clears one row.   *)
LineKinds == {"I"}

(* The 5x5 matrices of TETROMINOES, '#' written 1 and '.' written 0.       *)
TETROMINOES ==
  "I" :> <<
     <<<<0,0,0,0,0>>,
       <<0,0,1,0,0>>,
       <<0,0,1,0,0>>,
       <<0,0,1,0,0>>,
       <<0,0,1,0,0>>>>,
     <<<<0,0,0,0,0>>,
       <<0,0,0,0,0>>,
       <<1,1,1,1,0>>,
       <<0,0,0,0,0>>,
       <<0,0,0,0,0>>>> >> @@
  "O" :> <<
     <<<<0,0,0,0,0>>,
       <<0,0,0,0,0>>,
       <<0,1,1,0,0>>,
       <<0,1,1,0,0>>,
       <<0,0,0,0,0>>>> >> @@
  "T" :> <<
     <<<<0,0,0,0,0>>,
       <<0,0,0,0,0>>,
       <<0,1,0,0,0>>,
       <<1,1,1,0,0>>,
       <<0,0,0,0,0>>>>,
     <<<<0,0,0,0,0>>,
       <<0,0,0,0,0>>,
       <<0,1,0,0,0>>,
       <<0,1,1,0,0>>,
       <<0,1,0,0,0>>>>,
     <<<<0,0,0,0,0>>,
       <<0,0,0,0,0>>,
       <<0,0,0,0,0>>,
       <<1,1,1,0,0>>,
       <<0,1,0,0,0>>>>,
     <<<<0,0,0,0,0>>,
       <<0,0,0,0,0>>,
       <<0,1,0,0,0>>,
       <<1,1,0,0,0>>,
       <<0,1,0,0,0>>>> >> @@
  "S" :> <<
     <<<<0,0,0,0,0>>,
       <<0,0,0,0,0>>,
       <<0,1,1,0,0>>,
       <<1,1,0,0,0>>,
       <<0,0,0,0,0>>>>,
     <<<<0,0,0,0,0>>,
       <<0,0,0,0,0>>,
       <<0,1,0,0,0>>,
       <<0,1,1,0,0>>,
       <<0,0,1,0,0>>>> >> @@
  "Z" :> <<
     <<<<0,0,0,0,0>>,
       <<0,0,0,0,0>>,
       <<1,1,0,0,0>>,
       <<0,1,1,0,0>>,
       <<0,0,0,0,0>>>>,
     <<<<0,0,0,0,0>>,
       <<0,0,0,0,0>>,
       <<0,0,1,0,0>>,
       <<0,1,1,0,0>>,
       <<0,1,0,0,0>>>> >> @@
  "J" :> <<
     <<<<0,0,0,0,0>>,
       <<0,0,0,0,0>>,
       <<0,1,0,0,0>>,
       <<0,1,0,0,0>>,
       <<1,1,0,0,0>>>>,
     <<<<0,0,0,0,0>>,
       <<0,0,0,0,0>>,
       <<0,0,0,0,0>>,
       <<1,0,0,0,0>>,
       <<1,1,1,0,0>>>>,
     <<<<0,0,0,0,0>>,
       <<0,0,0,0,0>>,
       <<0,1,1,0,0>>,
       <<0,1,0,0,0>>,
       <<0,1,0,0,0>>>>,
     <<<<0,0,0,0,0>>,
       <<0,0,0,0,0>>,
       <<0,0,0,0,0>>,
       <<1,1,1,0,0>>,
       <<0,0,1,0,0>>>> >> @@
  "L" :> <<
     <<<<0,0,0,0,0>>,
       <<0,0,0,0,0>>,
       <<0,1,0,0,0>>,
       <<0,1,0,0,0>>,
       <<0,1,1,0,0>>>>,
     <<<<0,0,0,0,0>>,
       <<0,0,0,0,0>>,
       <<0,0,0,0,0>>,
       <<1,1,1,0,0>>,
       <<1,0,0,0,0>>>>,
     <<<<0,0,0,0,0>>,
       <<0,0,0,0,0>>,
       <<1,1,0,0,0>>,
       <<0,1,0,0,0>>,
       <<0,1,0,0,0>>>>,
     <<<<0,0,0,0,0>>,
       <<0,0,0,0,0>>,
       <<0,0,0,0,0>>,
       <<0,0,1,0,0>>,
       <<1,1,1,0,0>>>> >>

TETROMINO_COLORS ==
  "I" :> "CYAN" @@ "O" :> "YELLOW" @@ "T" :> "PURPLE" @@ "S" :> "GREEN" @@
  "Z" :> "RED" @@ "J" :> "BLUE" @@ "L" :> "ORANGE"

VARIABLES grid, current_piece, next_piece, score, level, lines_cleared,
          fall_time, fall_speed, game_over, locks, checking

vars == <<grid, current_piece, next_piece, score, level, lines_cleared,
          fall_time, fall_speed, game_over, locks, checking>>

(* Tetromino.__init__: a piece of kind shape at (x, y), rotation 0.        *)
Tetromino(x, y, shape) ==
  [x |-> x, y |-> y, shape |-> shape, color |-> TETROMINO_COLORS[shape], rotation |-> 0]

(* len(TETROMINOES[shape])                                                 *)
StateCount(shape) == Len(TETROMINOES[shape])

get_rotated_shape(piece) ==
  TETROMINOES[piece.shape][(piece.rotation % StateCount(piece.shape)) + 1]

(* The cells get_cells lists, as a set: (x + j, y + i) for each '#'.       *)
get_cells(piece) ==
  LET shape == get_rotated_shape(piece)
  IN  {<<piece.x + j, piece.y + i>> : <<i, j>> \in
         {ij \in (0..4) \X (0..4) : shape[ij[1] + 1][ij[2] + 1] = 1}}

EmptyRow == [c \in 1..GRID_WIDTH |-> BLACK]

EmptyGrid == [r \in 1..GRID_HEIGHT |-> EmptyRow]

get_new_piece(shape) == Tetromino(GRID_WIDTH \div 2 - 2, 0, shape)

(* is_valid_position without the test of line 227.                         *)
IsValidIgnoringGrid(g, piece, dx, dy, rotation) ==
  \A c \in get_cells([piece EXCEPT !.rotation = rotation]) :
    ~(c[1] + dx < 0 \/ c[1] + dx >= GRID_WIDTH \/ c[2] + dy >= GRID_HEIGHT)

(* is_valid_position without the test y >= 0 of line 228: a negative y     *)
(* indexes the grid from its last row.                                     *)
IsValidNegativeRowIndexed(g, piece, dx, dy, rotation) ==
  \A c \in get_cells([piece EXCEPT !.rotation = rotation]) :
    LET x == c[1] + dx
        y == c[2] + dy
    IN  /\ ~(x < 0 \/ x >= GRID_WIDTH \/ y >= GRID_HEIGHT)
        /\ y < -GRID_HEIGHT \/ g[(y % GRID_HEIGHT) + 1][x + 1] = BLACK

(* is_valid_position(piece, dx, dy, rotation) against the grid g.  A call  *)
(* that omits rotation passes piece.rotation (lines 213-214).  The         *)
(* rotation is written into the piece for the check and restored before    *)
(* every return, so the piece the caller holds is as it was.               *)
is_valid_position(g, piece, dx, dy, rotation) ==
  LET probe == [piece EXCEPT !.rotation = rotation]
  IN  \A c \in get_cells(probe) :
        LET x == c[1] + dx
            y == c[2] + dy
        IN  /\ ~(x < 0 \/ x >= GRID_WIDTH \/ y >= GRID_HEIGHT)
            /\ ~(y >= 0 /\ g[y + 1][x + 1] # BLACK)

(* place_piece writing each cell one row too high.                         *)
PlacePieceOneRowUp(g, piece) ==
  LET cells == get_cells(piece)
  IN  [r \in 1..GRID_HEIGHT |->
        [c \in 1..GRID_WIDTH |->
           IF <<c - 1, r>> \in cells THEN piece.color ELSE g[r][c]]]

(* place_piece: the grid after the cells of piece with y >= 0 are set to   *)
(* its colour.  It is only called on a piece in a valid position, whose    *)
(* cells are all inside the grid.                                          *)
place_piece(g, piece) ==
  LET cells == get_cells(piece)
  IN  [r \in 1..GRID_HEIGHT |->
        [c \in 1..GRID_WIDTH |->
           IF <<c - 1, r - 1>> \in cells /\ r - 1 >= 0 THEN piece.color ELSE g[r][c]]]

(* all(cell != BLACK for cell in row)                                      *)
RowComplete(row) == \A c \in 1..Len(row) : row[c] # BLACK

(* lines_to_clear: the indices y of the complete rows, ascending.          *)
RECURSIVE LinesFrom(_, _)
LinesFrom(g, y) ==
  IF y >= GRID_HEIGHT THEN <<>>
  ELSE (IF RowComplete(g[y + 1]) THEN <<y>> ELSE <<>>) \o LinesFrom(g, y + 1)

(* The scan of lines 243-245 stopped at the first complete row.            *)
LinesToClearFirstOnly(g) ==
  IF LinesFrom(g, 0) = <<>> THEN <<>> ELSE <<Head(LinesFrom(g, 0))>>

lines_to_clear(g) == LinesFrom(g, 0)

(* The loop turn that empties row y where it is instead of deleting it and *)
(* inserting an empty row at the top.                                      *)
BlankInPlace(g, y) == [g EXCEPT ![y + 1] = EmptyRow]

(* One turn of the loop of lines 247-249: del grid[y], then                *)
(* grid.insert(0, empty row).                                              *)
DeleteAndInsert(g, y) ==
  <<EmptyRow>> \o SubSeq(g, 1, y) \o SubSeq(g, y + 2, Len(g))

RECURSIVE RemoveLines(_, _)
RemoveLines(g, ys) ==
  IF ys = <<>> THEN g ELSE RemoveLines(DeleteAndInsert(g, Head(ys)), Tail(ys))

Max(a, b) == IF a >= b THEN a ELSE b

(* clear_lines on grid g with the counters st = [score, level,             *)
(* lines_cleared, fall_speed]: the grid and counters it leaves.            *)

(* clear_lines with line 255 before line 253: the level is computed from   *)
(* the count of lines before this call.                                    *)
ClearLinesStaleLevel(g, st) ==
  LET ys == lines_to_clear(g)
      n == Len(ys)
      lvl == st.lines_cleared \div 10 + 1
  IN  [grid |-> RemoveLines(g, ys),
       st |-> IF n > 0
              THEN [lines_cleared |-> st.lines_cleared + n,
                    score |-> st.score + n * 100 * st.level,
                    level |-> lvl,
                    fall_speed |-> Max(50, 500 - (lvl - 1) * 50)]
              ELSE st]

(* clear_lines with line 255 before line 254: the score is multiplied by   *)
(* the level after this call.                                              *)
ClearLinesScoreAtNewLevel(g, st) ==
  LET ys == lines_to_clear(g)
      n == Len(ys)
      total == st.lines_cleared + n
      lvl == total \div 10 + 1
  IN  [grid |-> RemoveLines(g, ys),
       st |-> IF n > 0
              THEN [lines_cleared |-> total,
                    score |-> st.score + n * 100 * lvl,
                    level |-> lvl,
                    fall_speed |-> Max(50, 500 - (lvl - 1) * 50)]
              ELSE st]

clear_lines(g, st) ==
  LET ys == lines_to_clear(g)
      n == Len(ys)
      total == st.lines_cleared + n
      lvl == total \div 10 + 1
  IN  [grid |-> RemoveLines(g, ys),
       st |-> IF n > 0
              THEN [lines_cleared |-> total,
                    score |-> st.score + n * 100 * st.level,
                    level |-> lvl,
                    fall_speed |-> Max(50, 500 - (lvl - 1) * 50)]
              ELSE st]

Counters == [lines_cleared |-> lines_cleared, score |-> score,
             level |-> level, fall_speed |-> fall_speed]

(* drop_piece with an if for the while of line 292.                        *)
DropOneRow(g, piece) ==
  IF is_valid_position(g, piece, 0, 1, piece.rotation)
  THEN [piece EXCEPT !.y = piece.y + 1]
  ELSE piece

(* drop_piece: the loop of lines 292-293, y += 1 while the row below is    *)
(* valid.                                                                  *)
RECURSIVE drop_piece(_, _)
drop_piece(g, piece) ==
  IF is_valid_position(g, piece, 0, 1, piece.rotation)
  THEN drop_piece(g, [piece EXCEPT !.y = piece.y + 1])
  ELSE piece

(* move_piece that tests the shift by dx and moves by -dx.                 *)
MovePieceReversed(g, piece, dx) ==
  IF is_valid_position(g, piece, dx, 0, piece.rotation)
  THEN [piece EXCEPT !.x = piece.x - dx]
  ELSE piece

(* move_piece without the test of line 281.                                *)
MovePieceUnchecked(g, piece, dx) == [piece EXCEPT !.x = piece.x + dx]

move_piece(g, piece, dx) ==
  IF is_valid_position(g, piece, dx, 0, piece.rotation)
  THEN [piece EXCEPT !.x = piece.x + dx]
  ELSE piece

(* rotate_piece without the test of line 287.                              *)
RotatePieceUnchecked(g, piece) ==
  [piece EXCEPT !.rotation = (piece.rotation + 1) % StateCount(piece.shape)]

rotate_piece(g, piece) ==
  LET new_rotation == (piece.rotation + 1) % StateCount(piece.shape)
  IN  IF is_valid_position(g, piece, 0, 0, new_rotation)
      THEN [piece EXCEPT !.rotation = new_rotation]
      ELSE piece

(* The K_s branch moving the piece up one row.                             *)
SoftDropUpwards(g, piece) ==
  IF is_valid_position(g, piece, 0, -1, piece.rotation)
  THEN [piece EXCEPT !.y = piece.y - 1]
  ELSE piece

(* The K_s branch without the test of line 417.                            *)
SoftDropUnchecked(g, piece) == [piece EXCEPT !.y = piece.y + 1]

(* The K_s branch of run (lines 416-418).                                  *)
soft_drop(g, piece) ==
  IF is_valid_position(g, piece, 0, 1, piece.rotation)
  THEN [piece EXCEPT !.y = piece.y + 1]
  ELSE piece

(* The test of line 274 on the piece promoted to current.                  *)
SpawnBlockedBelow(g, piece) == ~is_valid_position(g, piece, 0, 1, piece.rotation)

spawn_blocked(g, piece) == ~is_valid_position(g, piece, 0, 0, piece.rotation)

(* The lock branch with the test of line 274 made on the grid as it is     *)
(* before clear_lines.                                                     *)
LockPieceTestsBeforeClear(placed, nxt, st) ==
  LET cleared == clear_lines(placed, st)
  IN  [grid |-> cleared.grid, st |-> cleared.st,
       game_over |-> spawn_blocked(placed, nxt)]

(* The lock branch of update after place_piece, lines 270 to 275, on the   *)
(* grid placed that place_piece left: the complete rows are cleared, and   *)
(* the piece that was next, which becomes current, is tested on the grid   *)
(* so obtained.                                                            *)
lock_piece(placed, nxt, st) ==
  LET cleared == clear_lines(placed, st)
  IN  [grid |-> cleared.grid, st |-> cleared.st,
       game_over |-> spawn_blocked(cleared.grid, nxt)]

(* The test of line 265 with > for >=.                                     *)
IntervalExceeded(time, speed) == time > speed

(* The test of line 265 on the accumulated time.                           *)
interval_reached(time, speed) == time >= speed

(* No call of is_valid_position is in progress.                            *)
Idle == [pc |-> "idle", old_rotation |-> 0, valid |-> FALSE, args |-> <<>>]

(* TetrisGame.__init__ and reset_game leave the same state; the two kinds  *)
(* are the two draws of random.choice.                                     *)
Fresh(pool) ==
  /\ grid = EmptyGrid
  /\ current_piece \in {get_new_piece(k) : k \in pool}
  /\ next_piece \in {get_new_piece(k) : k \in pool}
  /\ score = 0
  /\ level = 1
  /\ lines_cleared = 0
  /\ fall_time = 0
  /\ fall_speed = 500
  /\ game_over = FALSE
  /\ locks = 0
  /\ checking = Idle

(* update(dt), with the kinds random.choice may return drawn from pool.    *)
(* locks counts the lock branches taken since the last reset (counted = 1) *)
(* and the lock branch is explored while locks < lockCap and               *)
(* lines_cleared < lineCap.                                                *)
Update(dt, pool, lockCap, lineCap, counted) ==
  IF game_over
  THEN UNCHANGED vars
  ELSE IF interval_reached(fall_time + dt, fall_speed)
       THEN /\ fall_time' = 0
            /\ IF is_valid_position(grid, current_piece, 0, 1, current_piece.rotation)
               THEN /\ current_piece' = [current_piece EXCEPT !.y = current_piece.y + 1]
                    /\ UNCHANGED <<grid, next_piece, score, level, lines_cleared,
                                   fall_speed, game_over, locks, checking>>
               ELSE /\ locks < lockCap
                    /\ lines_cleared < lineCap
                    /\ \E placed \in {place_piece(grid, current_piece)} :
                       \E locked \in {lock_piece(placed, next_piece, Counters)} :
                           /\ grid' = locked.grid
                           /\ score' = locked.st.score
                           /\ level' = locked.st.level
                           /\ lines_cleared' = locked.st.lines_cleared
                           /\ fall_speed' = locked.st.fall_speed
                           /\ current_piece' = next_piece
                           /\ \E k \in pool : next_piece' = get_new_piece(k)
                           /\ game_over' = locked.game_over
                           /\ locks' = locks + counted
                           /\ UNCHANGED checking
       ELSE /\ fall_time' = fall_time + dt
            /\ UNCHANGED <<grid, current_piece, next_piece, score, level, lines_cleared,
                           fall_speed, game_over, locks, checking>>

MovePiece(dx) ==
  /\ UNCHANGED <<grid, next_piece, score, level, lines_cleared, fall_time,
                 fall_speed, game_over, locks, checking>>
  /\ current_piece' = move_piece(grid, current_piece, dx)

RotatePiece ==
  /\ UNCHANGED <<grid, next_piece, score, level, lines_cleared, fall_time,
                 fall_speed, game_over, locks, checking>>
  /\ current_piece' = rotate_piece(grid, current_piece)

SoftDrop ==
  /\ UNCHANGED <<grid, next_piece, score, level, lines_cleared, fall_time,
                 fall_speed, game_over, locks, checking>>
  /\ current_piece' = soft_drop(grid, current_piece)

HardDrop ==
  /\ UNCHANGED <<grid, next_piece, score, level, lines_cleared, fall_time,
                 fall_speed, game_over, locks, checking>>
  /\ current_piece' = drop_piece(grid, current_piece)

(* reset_game without line 397.                                            *)
ResetGameKeepsSpeed(pool) ==
  /\ grid' = EmptyGrid
  /\ current_piece' \in {get_new_piece(k) : k \in pool}
  /\ next_piece' \in {get_new_piece(k) : k \in pool}
  /\ score' = 0
  /\ level' = 1
  /\ lines_cleared' = 0
  /\ fall_time' = 0
  /\ game_over' = FALSE
  /\ locks' = 0
  /\ UNCHANGED <<fall_speed, checking>>

ResetGame(pool) ==
  /\ grid' = EmptyGrid
  /\ current_piece' \in {get_new_piece(k) : k \in pool}
  /\ next_piece' \in {get_new_piece(k) : k \in pool}
  /\ score' = 0
  /\ level' = 1
  /\ lines_cleared' = 0
  /\ fall_time' = 0
  /\ fall_speed' = 500
  /\ game_over' = FALSE
  /\ locks' = 0
  /\ UNCHANGED checking

(* The keys of run: A, D, S, W, SPACE.                                     *)
Keys ==
  \/ \E dx \in {-1, 1} : MovePiece(dx)
  \/ RotatePiece
  \/ SoftDrop
  \/ HardDrop

(***************************************************************************)
(* Spec: the game with the first NumKinds kinds, at most MaxLocks locks.   *)
(***************************************************************************)
Init == Fresh(Kinds)

Tick(dt) == Update(dt, Kinds, MaxLocks, MaxLines, 1)

Reset == ResetGame(Kinds)

Next ==
  \/ \E dt \in Dts : Tick(dt)
  \/ Keys
  \/ Reset

Spec == Init /\ [][Next]_vars

(***************************************************************************)
(* SpecAll: the game with all seven kinds, at most MaxLocksAll locks.      *)
(***************************************************************************)
InitAll == Fresh(AllKinds)

TickAll(dt) == Update(dt, AllKinds, MaxLocksAll, MaxLines, 1)

ResetAll == ResetGame(AllKinds)

NextAll ==
  \/ \E dt \in Dts : TickAll(dt)
  \/ Keys
  \/ ResetAll

SpecAll == InitAll /\ [][NextAll]_vars

(***************************************************************************)
(* SpecLines: the game with I pieces only, played until MaxLines rows have *)
(* been cleared; the locks are not counted.                                *)
(***************************************************************************)
InitLines == Fresh(LineKinds)

TickLines(dt) == Update(dt, LineKinds, 1, MaxLines, 0)

ResetLines == ResetGame(LineKinds)

NextLines ==
  \/ \E dt \in Dts : TickLines(dt)
  \/ Keys
  \/ ResetLines

SpecLines == InitLines /\ [][NextLines]_vars

(***************************************************************************)
(* SpecClear: clear_lines called once on a grid whose rows are each empty, *)
(* complete, or one of two partial rows, in a game otherwise as            *)
(* constructed.                                                            *)
(***************************************************************************)
FullRow == [c \in 1..GRID_WIDTH |-> "CYAN"]

LeftRow == [c \in 1..GRID_WIDTH |-> IF c = 1 THEN "YELLOW" ELSE BLACK]

RightRow == [c \in 1..GRID_WIDTH |-> IF c = 1 THEN BLACK ELSE "PURPLE"]

RowChoices == {EmptyRow, FullRow, LeftRow, RightRow}

InitClear ==
  /\ grid \in [1..GRID_HEIGHT -> RowChoices]
  /\ current_piece = get_new_piece("O")
  /\ next_piece = get_new_piece("O")
  /\ score = 0
  /\ level = 1
  /\ lines_cleared = 0
  /\ fall_time = 0
  /\ fall_speed = 500
  /\ game_over = FALSE
  /\ locks = 0
  /\ checking = Idle

ClearLines ==
  LET cleared == clear_lines(grid, Counters)
  IN  /\ grid' = cleared.grid
      /\ score' = cleared.st.score
      /\ level' = cleared.st.level
      /\ lines_cleared' = cleared.st.lines_cleared
      /\ fall_speed' = cleared.st.fall_speed
      /\ UNCHANGED <<current_piece, next_piece, fall_time, game_over, locks, checking>>

NextClear == ClearLines

SpecClear == InitClear /\ [][NextClear]_vars

(***************************************************************************)
(* Vocabulary of the properties.                                           *)
(***************************************************************************)
InGrid(x, y) == 0 <= x /\ x < GRID_WIDTH /\ 0 <= y /\ y < GRID_HEIGHT

(* The content of cell (x, y), "OUTSIDE" for a cell that is not a cell of  *)
(* the grid.                                                               *)
CellAt(g, x, y) == IF InGrid(x, y) THEN g[y + 1][x + 1] ELSE "OUTSIDE"

(* The cells of piece at rotation rot, moved by (dx, dy).                  *)
CellsAt(piece, dx, dy, rot) ==
  {<<c[1] + dx, c[2] + dy>> : c \in get_cells([piece EXCEPT !.rotation = rot])}

(* Every cell is inside the side walls and above the floor, and is empty   *)
(* when it is a row of the grid.                                           *)
Legal(g, cells) ==
  \A c \in cells :
    /\ 0 <= c[1] /\ c[1] < GRID_WIDTH /\ c[2] < GRID_HEIGHT
    /\ c[2] < 0 \/ CellAt(g, c[1], c[2]) = BLACK

Occupied(g) == {xy \in (0..GRID_WIDTH - 1) \X (0..GRID_HEIGHT - 1) : CellAt(g, xy[1], xy[2]) # BLACK}

SpawnX == GRID_WIDTH \div 2 - 2

(* update(dt) reaches the fall interval and the piece cannot move down.    *)
LockPre(dt) ==
  /\ ~game_over
  /\ fall_time + dt >= fall_speed
  /\ ~Legal(grid, CellsAt(current_piece, 0, 1, current_piece.rotation))

(* A step of update that takes the lock branch (lines 269-275).            *)
LockStep == \E dt \in Dts : LockPre(dt) /\ Tick(dt)

LockStepAll == \E dt \in Dts : LockPre(dt) /\ TickAll(dt)

LockStepLines == \E dt \in Dts : LockPre(dt) /\ TickLines(dt)

(***************************************************************************)
(* C1.  While game_over is true, move_piece(-1), move_piece(+1),           *)
(* rotate_piece, the soft drop and drop_piece leave the x, y and rotation  *)
(* of the current piece and the whole grid as they were.                   *)
(* The key handlers do not test game_over, so this is violated.            *)
(***************************************************************************)
C1_KeysAreNoOpsWhenOver ==
  [][(game_over /\ Keys) =>
       /\ current_piece'.x = current_piece.x
       /\ current_piece'.y = current_piece.y
       /\ current_piece'.rotation = current_piece.rotation
       /\ grid' = grid]_vars

(***************************************************************************)
(* C2.  game_over starts false; it becomes true only in a step of update   *)
(* that takes the lock branch, and such a step leaves it true exactly when *)
(* the piece promoted to current is not in a valid position at its spawn   *)
(* anchor; update changes nothing while it is true; it becomes false only  *)
(* by reset_game.                                                          *)
(***************************************************************************)
C2_GameOverMachine ==
  /\ ~game_over
  /\ [][/\ (~game_over /\ game_over') => LockStep
        /\ LockStep =>
             /\ current_piece' = next_piece
             /\ current_piece'.x = SpawnX /\ current_piece'.y = 0
             /\ game_over' <=> ~Legal(grid', CellsAt(current_piece', 0, 0, 0))
        /\ (game_over /\ \E dt \in Dts : Tick(dt)) => UNCHANGED vars
        /\ (game_over /\ ~game_over') => Reset
        /\ (Keys \/ Reset) => (game_over' = game_over \/ (Reset /\ ~game_over'))]_vars

(* The second lock since the reset has ended the game.                     *)
C2_Witness == game_over /\ locks = 2

(***************************************************************************)
(* C3.  Every cell that place_piece writes when update locks the current   *)
(* piece was empty before the write.                                       *)
(***************************************************************************)
C3_LockWritesEmptyCells ==
  [][LockStep =>
       /\ \A c \in get_cells(current_piece) : c[2] >= 0 => CellAt(grid, c[1], c[2]) = BLACK
       /\ \A xy \in Occupied(grid) \ get_cells(current_piece) :
            CellAt(place_piece(grid, current_piece), xy[1], xy[2]) = CellAt(grid, xy[1], xy[2])]_vars

(* Two pieces are locked and none of the eight cells was written twice.    *)
C3_Witness == ~game_over /\ locks = 2 /\ Cardinality(Occupied(grid)) = 8

(***************************************************************************)
(* C4.  In every reachable state, running or over, every cell of the       *)
(* current piece has 0 <= x < GRID_WIDTH and y < GRID_HEIGHT.              *)
(***************************************************************************)
C4_PieceInBounds ==
  \A c \in get_cells(current_piece) :
    0 <= c[1] /\ c[1] < GRID_WIDTH /\ c[2] < GRID_HEIGHT

(* The game is over and the piece has been moved from its spawn column to  *)
(* the left wall.                                                          *)
C4_Witness ==
  /\ game_over
  /\ current_piece.x # SpawnX
  /\ \E c \in get_cells(current_piece) : c[1] = 0

(* Every cell of the row is non-empty.                                     *)
Full(row) == \A c \in 1..GRID_WIDTH : row[c] # BLACK

FullRowsOf(g) == {r \in 1..GRID_HEIGHT : Full(g[r])}

(***************************************************************************)
(* C5.  clear_lines removes exactly the rows in which every cell is        *)
(* non-empty, wherever they are, puts as many empty rows at the top, keeps *)
(* the other rows as they were and in their order, and leaves GRID_HEIGHT  *)
(* rows of GRID_WIDTH cells.                                               *)
(***************************************************************************)
C5_ClearLinesCompacts ==
  [][ClearLines =>
       LET k == Cardinality(FullRowsOf(grid))
           kept == SelectSeq(grid, LAMBDA row : ~Full(row))
       IN  /\ Len(grid') = GRID_HEIGHT
           /\ \A r \in 1..GRID_HEIGHT : Len(grid'[r]) = GRID_WIDTH
           /\ \A r \in 1..k : grid'[r] = EmptyRow
           /\ Len(kept) = GRID_HEIGHT - k
           /\ \A r \in 1..Len(kept) : grid'[k + r] = kept[r]
           /\ FullRowsOf(grid') = {}]_vars

(* Two complete rows were removed: two empty rows are on top, and the      *)
(* partial rows follow in their order.                                     *)
C5_Witness ==
  /\ lines_cleared = 2
  /\ grid[1] = EmptyRow /\ grid[2] = EmptyRow
  /\ grid[3] = LeftRow /\ grid[4] = RightRow /\ grid[5] = EmptyRow /\ grid[6] = LeftRow

(***************************************************************************)
(* C6.  In every reachable state level = lines_cleared div 10 + 1 and      *)
(* fall_speed = max(50, 500 - (level - 1) * 50): level 2 and 450 ms at 10  *)
(* lines, level 10 and 50 ms at 90 lines, and 50 ms at every higher level. *)
(***************************************************************************)
C6_LevelAndSpeed ==
  /\ level = lines_cleared \div 10 + 1
  /\ fall_speed = (IF 500 - (level - 1) * 50 > 50 THEN 500 - (level - 1) * 50 ELSE 50)
  /\ lines_cleared = 10 => level = 2 /\ fall_speed = 450
  /\ lines_cleared = 90 => level = 10 /\ fall_speed = 50
  /\ level >= 10 => fall_speed = 50

(* Level 11 is reached, where 500 - (level - 1) * 50 is 0.                 *)
C6_Witness == lines_cleared >= 100 /\ level = 11 /\ fall_speed = 50

(***************************************************************************)
(* C7.  A call of clear_lines that clears k > 0 rows adds k * 100 * L to   *)
(* the score and k to lines_cleared, L being the level before the call; a  *)
(* call that clears no row changes neither the score, lines_cleared, the   *)
(* level, the fall interval nor the grid it was called on.                 *)
(***************************************************************************)
C7_ScorePerClear ==
  [][LockStepLines =>
       LET placed == place_piece(grid, current_piece)
           k == Cardinality(FullRowsOf(placed))
       IN  IF k > 0
           THEN /\ score' = score + k * 100 * level
                /\ lines_cleared' = lines_cleared + k
           ELSE /\ score' = score
                /\ lines_cleared' = lines_cleared
                /\ level' = level
                /\ fall_speed' = fall_speed
                /\ grid' = placed]_vars

(* Nine single rows and then four rows at once, all at level 1: the call   *)
(* that reaches level 2 is scored at level 1.                              *)
C7_Witness == lines_cleared = 13 /\ score = 1300 /\ level = 2

(* The number of rotation states of each kind.                             *)
KindStates ==
  "O" :> 1 @@ "I" :> 2 @@ "S" :> 2 @@ "Z" :> 2 @@ "T" :> 4 @@ "J" :> 4 @@ "L" :> 4

(***************************************************************************)
(* C8.  rotate_piece sets the rotation to (rotation + 1) mod the kind's    *)
(* state count when the piece at that rotation and the same anchor is in a *)
(* valid position; otherwise it leaves the rotation and the cells of the   *)
(* piece as they were.  The anchor never moves.                            *)
(***************************************************************************)
C8_RotateCommitsIffValid ==
  [][RotatePiece =>
       LET new == (current_piece.rotation + 1) % KindStates[current_piece.shape]
       IN  /\ current_piece'.x = current_piece.x
           /\ current_piece'.y = current_piece.y
           /\ current_piece'.shape = current_piece.shape
           /\ IF Legal(grid, CellsAt(current_piece, 0, 0, new))
              THEN current_piece'.rotation = new
              ELSE /\ current_piece'.rotation = current_piece.rotation
                   /\ get_cells(current_piece') = get_cells(current_piece)]_vars

(* A piece that has been rotated and whose next rotation is refused.       *)
C8_Witness ==
  /\ ~game_over
  /\ current_piece.rotation > 0
  /\ ~Legal(grid, CellsAt(current_piece, 0, 0,
                          (current_piece.rotation + 1) % KindStates[current_piece.shape]))

(***************************************************************************)
(* C9.  drop_piece returns, and then the piece cannot move down one more   *)
(* row; it adds to y the largest d >= 0 such that the positions 1..d rows  *)
(* below are all valid, and changes neither x, the rotation nor the grid.  *)
(***************************************************************************)
C9_HardDropMaximal ==
  [][HardDrop =>
       LET d == current_piece'.y - current_piece.y
           rot == current_piece.rotation
       IN  /\ d \in 0..GRID_HEIGHT
           /\ current_piece' = [current_piece EXCEPT !.y = current_piece.y + d]
           /\ grid' = grid
           /\ \A i \in 1..d : Legal(grid, CellsAt(current_piece, 0, i, rot))
           /\ ~Legal(grid, CellsAt(current_piece, 0, d + 1, rot))
           /\ ~Legal(grid', CellsAt(current_piece', 0, 1, current_piece'.rotation))]_vars

(* A piece at rest on a locked piece, above the floor.                     *)
C9_Witness ==
  /\ ~game_over
  /\ current_piece.y > 0
  /\ Legal(grid, get_cells(current_piece))
  /\ \E c \in get_cells(current_piece) :
       c[2] + 1 < GRID_HEIGHT /\ CellAt(grid, c[1], c[2] + 1) # BLACK

(***************************************************************************)
(* C10.  The end-to-end scenario on the 4 x 6 grid: an O piece one column  *)
(* left of the spawn anchor over the empty grid.  A call of update whose   *)
(* dt reaches the fall interval moves it down one row, or, on the floor,   *)
(* locks it.                                                               *)
(***************************************************************************)
ScenarioPre(dt) ==
  /\ ~game_over
  /\ grid = EmptyGrid
  /\ current_piece.shape = "O" /\ current_piece.x = -1 /\ current_piece.rotation = 0
  /\ fall_time + dt >= fall_speed

(* The grid whose only occupied cells are the bottom-left 2 x 2 block.     *)
BottomLeftO ==
  [r \in 1..GRID_HEIGHT |->
    [c \in 1..GRID_WIDTH |-> IF r >= GRID_HEIGHT - 1 /\ c <= 2 THEN "YELLOW" ELSE BLACK]]

ScenarioStep(over) ==
  \A dt \in Dts :
    (ScenarioPre(dt) /\ TickAll(dt)) =>
      IF current_piece.y < GRID_HEIGHT - 4
      THEN /\ current_piece' = [current_piece EXCEPT !.y = current_piece.y + 1]
           /\ grid' = grid
           /\ ~game_over'
      ELSE /\ grid' = BottomLeftO
           /\ current_piece' = next_piece
           /\ game_over' = over

(* C10 as claimed: game_over is false after the lock whatever the kind of  *)
(* the next piece.  Violated for J and L.                                  *)
C10_ScenarioNeverOver == [][ScenarioStep(FALSE)]_vars

(* C10 as amended: game_over is false after the lock when the next piece   *)
(* is I, O, T, S or Z, and true when it is J or L, whose spawn cells reach *)
(* the top row of the locked block.                                        *)
C10_ScenarioOverForJL == [][ScenarioStep(next_piece.shape \in {"J", "L"})]_vars

(* The O is locked in the bottom-left corner and the J promoted to current *)
(* overlaps it.                                                            *)
C10_Witness ==
  /\ grid = BottomLeftO
  /\ locks = 1
  /\ game_over
  /\ current_piece = get_new_piece("J")

(***************************************************************************)
(* C11: reset_game, in a running game or a finished one, leaves the state  *)
(* of a newly constructed game: every cell of the grid is empty, score 0,  *)
(* level 1, lines_cleared 0, fall_time 0, fall_speed 500, game_over false, *)
(* and current and next piece are at the spawn anchor                      *)
(* (GRID_WIDTH \div 2 - 2, 0) with rotation 0.                             *)
(***************************************************************************)
AtSpawn(piece) ==
  /\ piece.x = SpawnX
  /\ piece.y = 0
  /\ piece.rotation = 0
  /\ piece.shape \in AllKinds
  /\ piece.color = TETROMINO_COLORS[piece.shape]

AsConstructed ==
  /\ \A x \in 0..GRID_WIDTH - 1 : \A y \in 0..GRID_HEIGHT - 1 : CellAt(grid, x, y) = BLACK
  /\ score = 0
  /\ level = 1
  /\ lines_cleared = 0
  /\ fall_time = 0
  /\ fall_speed = 500
  /\ game_over = FALSE
  /\ AtSpawn(current_piece)
  /\ AtSpawn(next_piece)

C11_ResetEqualsFresh == [][ResetLines => AsConstructed']_vars

(* A finished game of level 3, with a score and a stack, in which          *)
(* reset_game is called.                                                   *)
C11_Witness ==
  /\ game_over
  /\ level = 3
  /\ fall_speed = 400
  /\ score > 0
  /\ Occupied(grid) # {}

(***************************************************************************)
(* SpecNeg: the game of Spec, at most MaxLocksAll locks, in which update   *)
(* is also called with a negative dt.  update adds dt to fall_time         *)
(* whatever its sign (line 263); the calls explored keep fall_time at or   *)
(* above -MaxDebt.                                                         *)
(***************************************************************************)
MaxDebt == 500

NegDts == {-250}

TickNeg(dt) ==
  /\ fall_time + dt >= -MaxDebt
  /\ Update(dt, Kinds, MaxLocksAll, MaxLines, 1)

NextNeg ==
  \/ \E dt \in Dts \cup NegDts : TickNeg(dt)
  \/ Keys
  \/ Reset

SpecNeg == Init /\ [][NextNeg]_vars

(***************************************************************************)
(* C12: update with a negative dt is a no-op, it leaves fall_time, the     *)
(* current piece and the grid as they were, so that fall_time is never     *)
(* negative.                                                               *)
(***************************************************************************)
C12_NegativeTickIsNoOp ==
  [][\A dt \in NegDts :
       TickNeg(dt) => /\ UNCHANGED <<fall_time, current_piece, grid>>
                      /\ fall_time' >= 0]_vars

(***************************************************************************)
(* C13: move_piece, rotate_piece, the soft drop and drop_piece change      *)
(* neither the grid, the score, the level, lines_cleared, fall_speed,      *)
(* fall_time, the next piece, nor which piece is current (its kind and     *)
(* colour).  move_piece(dx) adds dx to x, and changes nothing else of the  *)
(* piece, when the cells moved by (dx, 0) are legal, and the soft drop     *)
(* adds 1 to y when the cells moved by (0, 1) are legal; each of the two   *)
(* leaves the whole state as it was otherwise.                             *)
(***************************************************************************)
C13_KeysFrame ==
  [][/\ Keys =>
          /\ UNCHANGED <<grid, score, level, lines_cleared, fall_speed, fall_time, next_piece>>
          /\ current_piece'.shape = current_piece.shape
          /\ current_piece'.color = current_piece.color
     /\ \A dx \in {-1, 1} :
          MovePiece(dx) =>
            IF Legal(grid, CellsAt(current_piece, dx, 0, current_piece.rotation))
            THEN /\ current_piece'.x = current_piece.x + dx
                 /\ current_piece'.y = current_piece.y
                 /\ current_piece'.rotation = current_piece.rotation
            ELSE UNCHANGED vars
     /\ SoftDrop =>
          IF Legal(grid, CellsAt(current_piece, 0, 1, current_piece.rotation))
          THEN /\ current_piece'.y = current_piece.y + 1
               /\ current_piece'.x = current_piece.x
               /\ current_piece'.rotation = current_piece.rotation
          ELSE UNCHANGED vars]_vars

(* The piece has been moved to the left wall and soft-dropped onto the     *)
(* stack of a game in progress: a further move_piece(-1) and a further     *)
(* soft drop are refused.                                                  *)
C13_Witness ==
  /\ ~game_over
  /\ locks = 1
  /\ current_piece.x < SpawnX
  /\ current_piece.y > 0
  /\ fall_time = 250
  /\ ~Legal(grid, CellsAt(current_piece, -1, 0, current_piece.rotation))
  /\ ~Legal(grid, CellsAt(current_piece, 0, 1, current_piece.rotation))
  /\ \E c \in CellsAt(current_piece, 0, 1, current_piece.rotation) : CellAt(grid, c[1], c[2]) \notin {BLACK, "OUTSIDE"}

(***************************************************************************)
(* C14: one update(dt) of a running game takes at most one gravity step,   *)
(* however many fall intervals dt spans.  When fall_time + dt is below     *)
(* fall_speed it adds dt to fall_time and changes neither the piece nor    *)
(* the grid.  Otherwise it sets fall_time to 0 and either moves the piece  *)
(* down by exactly one row, the grid unchanged, or, the row below being    *)
(* illegal, locks it: the piece that was next becomes current.             *)
(***************************************************************************)
C14_OneGravityStepPerTick ==
  [][\A dt \in Dts :
       (~game_over /\ Tick(dt)) =>
         IF fall_time + dt < fall_speed
         THEN /\ fall_time' = fall_time + dt
              /\ UNCHANGED <<current_piece, grid, next_piece, locks>>
         ELSE /\ fall_time' = 0
              /\ IF Legal(grid, CellsAt(current_piece, 0, 1, current_piece.rotation))
                 THEN /\ current_piece' = [current_piece EXCEPT !.y = current_piece.y + 1]
                      /\ UNCHANGED <<grid, next_piece, locks>>
                 ELSE /\ current_piece' = next_piece
                      /\ locks' = locks + 1
                      /\ get_cells(current_piece) \subseteq Occupied(place_piece(grid, current_piece))]_vars

(* An update whose dt reached the fall interval, or spanned it twice, has  *)
(* locked the first piece of the game where it rested on the floor, in one *)
(* step; the promoted piece is at its spawn anchor and no time has         *)
(* accumulated since.                                                      *)
C14_Witness ==
  /\ ~game_over
  /\ locks = 1
  /\ fall_time = 0
  /\ AtSpawn(current_piece)
  /\ Occupied(grid) # {}
  /\ \A xy \in Occupied(grid) : xy[2] >= GRID_HEIGHT - 4

(***************************************************************************)
(* SpecValid: is_valid_position called once, on a grid whose rows are each *)
(* empty or one of two partial rows, for a piece of one of the first       *)
(* NumKinds kinds placed around the spawn anchor, above the grid as well   *)
(* as inside it.  The argument rotation is <<>> for a call that omits it   *)
(* and <<r>> for a call that passes r.                                     *)
(***************************************************************************)
ProbeRows == {EmptyRow, LeftRow, RightRow}

ProbeXs == {SpawnX - 1, SpawnX, SpawnX + 1}

ProbeYs == {-3, -1, 0, 2}

ProbeRotations == {0, 1}

ArgDxs == {-1, 0, 1}

ArgDys == {0, 1}

ArgRotations == {<<>>} \cup {<<r>> : r \in 0..3}

InitValid ==
  /\ grid \in [1..GRID_HEIGHT -> ProbeRows]
  /\ current_piece \in {[Tetromino(x, y, k) EXCEPT !.rotation = r] :
                          x \in ProbeXs, y \in ProbeYs, k \in Kinds, r \in ProbeRotations}
  /\ next_piece = get_new_piece("O")
  /\ score = 0
  /\ level = 1
  /\ lines_cleared = 0
  /\ fall_time = 0
  /\ fall_speed = 500
  /\ game_over = FALSE
  /\ locks = 0
  /\ checking = Idle

(* The call and its return; the result and the arguments are kept in       *)
(* checking.                                                               *)
IsValidCall(dx, dy, rotation) ==
  /\ checking.pc = "idle"
  /\ UNCHANGED <<grid, current_piece, next_piece, score, level, lines_cleared,
                 fall_time, fall_speed, game_over, locks>>
  /\ checking' = [pc |-> "returned",
                  old_rotation |-> current_piece.rotation,
                  valid |-> is_valid_position(grid, current_piece, dx, dy,
                              IF rotation = <<>> THEN current_piece.rotation ELSE rotation[1]),
                  args |-> <<dx, dy, rotation>>]

NextValid == \E dx \in ArgDxs, dy \in ArgDys, rotation \in ArgRotations : IsValidCall(dx, dy, rotation)

SpecValid == InitValid /\ [][NextValid]_vars

(***************************************************************************)
(* C15: is_valid_position(piece, dx, dy, rotation) is true exactly when    *)
(* every cell of the piece, taken at rotation when it is given and at the  *)
(* rotation of the piece otherwise, and moved by (dx, dy), has             *)
(* 0 <= x < GRID_WIDTH, y < GRID_HEIGHT, and y < 0 or an empty grid cell   *)
(* at (x, y).  A cell above the grid is exempt from the occupancy test and *)
(* not from the test of x.                                                 *)
(***************************************************************************)
ArgCells ==
  CellsAt(current_piece, checking.args[1], checking.args[2],
          IF checking.args[3] = <<>> THEN current_piece.rotation ELSE checking.args[3][1])

C15_ValidIffEveryCellLegal ==
  checking.pc = "returned" =>
    (checking.valid <=>
       \A c \in ArgCells :
         /\ 0 <= c[1]
         /\ c[1] < GRID_WIDTH
         /\ c[2] < GRID_HEIGHT
         /\ c[2] < 0 \/ grid[c[2] + 1][c[1] + 1] = BLACK)

(* A call that returned true for a piece with a cell above the grid, in a  *)
(* column whose bottom cell is occupied, all its cells inside the side     *)
(* walls.                                                                  *)
C15_Witness ==
  /\ checking.pc = "returned"
  /\ checking.valid
  /\ \E c \in ArgCells : c[2] < 0 /\ grid[GRID_HEIGHT + c[2] + 1][c[1] + 1] # BLACK
  /\ \E c \in ArgCells : c[2] >= 0

(* A call that returned false though no cell of the piece is on an         *)
(* occupied cell or below the floor: a cell above the grid is outside the  *)
(* side walls.                                                             *)
C15_WitnessAbove ==
  /\ checking.pc = "returned"
  /\ ~checking.valid
  /\ checking.args[3] # <<>>
  /\ \A c \in ArgCells : c[2] < 0
  /\ \E c \in ArgCells : c[1] < 0 \/ c[1] >= GRID_WIDTH

(***************************************************************************)
(* C16: when the gravity step fails, update, in this order, writes the     *)
(* cells of the piece into the grid, removes the complete rows, makes the  *)
(* next piece current (the same kind, at the spawn anchor, rotation 0),    *)
(* creates a new next piece, and sets game_over exactly when the new       *)
(* current piece is not legal on the grid left by the removal of the rows. *)
(* A lock whose cleared rows free the cells of the spawn area therefore    *)
(* does not end the game.                                                  *)
(***************************************************************************)
Written(g, piece) ==
  [r \in 1..GRID_HEIGHT |->
     [c \in 1..GRID_WIDTH |->
        IF <<c - 1, r - 1>> \in get_cells(piece) THEN piece.color ELSE g[r][c]]]

Compacted(g) ==
  LET kept == SelectSeq(g, LAMBDA row : ~Full(row))
  IN  [r \in 1..GRID_HEIGHT - Len(kept) |-> EmptyRow] \o kept

C16_LockOrder ==
  [][LockStep =>
       /\ grid' = Compacted(Written(grid, current_piece))
       /\ current_piece'.shape = next_piece.shape
       /\ AtSpawn(current_piece')
       /\ AtSpawn(next_piece')
       /\ game_over' <=> ~Legal(grid', CellsAt(current_piece', 0, 0, 0))]_vars

(* The second lock completed the bottom row with a T standing in column 0 *)
(* on rows 3 to 5, beside the T locked first; the row was removed and the  *)
(* cell (0, 3), which the promoted T occupies at its spawn anchor, is      *)
(* empty again: the game goes on.                                          *)
C16_Witness ==
  /\ ~game_over
  /\ locks = 2
  /\ lines_cleared = 1
  /\ fall_time = 0
  /\ AtSpawn(current_piece)
  /\ current_piece.shape = "T"
  /\ <<0, 3>> \in get_cells(current_piece)
  /\ Occupied(grid) = {<<0, 4>>, <<0, 5>>, <<1, 5>>, <<2, 5>>}

(***************************************************************************)
(* SpecCheck: the game of Spec, at most MaxLocksAll locks, with            *)
(* rotate_piece taken statement by statement through its call of           *)
(* is_valid_position.  checking.pc is "cells" between the write of line    *)
(* 217 and the return, and "returned" between the return and the test of   *)
(* line 287.  The other handlers pass no rotation: line 217 then writes    *)
(* the rotation the piece already has, and they are taken as one step.     *)
(***************************************************************************)

(* rotate_piece, line 286, and is_valid_position up to line 217:           *)
(* old_rotation = piece.rotation; piece.rotation = rotation.               *)
RotateCall ==
  /\ checking.pc = "idle"
  /\ UNCHANGED <<grid, next_piece, score, level, lines_cleared, fall_time,
                 fall_speed, game_over, locks>>
  /\ LET new_rotation == (current_piece.rotation + 1) % StateCount(current_piece.shape)
     IN  /\ checking' = [pc |-> "cells", old_rotation |-> current_piece.rotation,
                         valid |-> FALSE, args |-> <<0, 0, <<new_rotation>>>>]
         /\ current_piece' = [current_piece EXCEPT !.rotation = new_rotation]

(* is_valid_position, lines 219 to 232: the loop over the cells of the     *)
(* piece as it now is, and piece.rotation = old_rotation before the        *)
(* return.                                                                 *)
CheckReturn ==
  /\ checking.pc = "cells"
  /\ UNCHANGED <<grid, next_piece, score, level, lines_cleared, fall_time,
                 fall_speed, game_over, locks>>
  /\ checking' = [checking EXCEPT
                    !.pc = "returned",
                    !.valid = \A c \in get_cells(current_piece) :
                                /\ ~(c[1] < 0 \/ c[1] >= GRID_WIDTH \/ c[2] >= GRID_HEIGHT)
                                /\ ~(c[2] >= 0 /\ grid[c[2] + 1][c[1] + 1] # BLACK)]
  /\ current_piece' = [current_piece EXCEPT !.rotation = checking.old_rotation]

(* rotate_piece, lines 287 and 288.                                        *)
RotateCommit ==
  /\ checking.pc = "returned"
  /\ UNCHANGED <<grid, next_piece, score, level, lines_cleared, fall_time,
                 fall_speed, game_over, locks>>
  /\ checking' = Idle
  /\ current_piece' = IF checking.valid
                      THEN [current_piece EXCEPT !.rotation = checking.args[3][1]]
                      ELSE current_piece

TickCheck(dt) == checking.pc = "idle" /\ Update(dt, Kinds, MaxLocksAll, MaxLines, 1)

NextCheck ==
  \/ \E dt \in Dts : TickCheck(dt)
  \/ \E dx \in {-1, 1} : checking.pc = "idle" /\ MovePiece(dx)
  \/ checking.pc = "idle" /\ SoftDrop
  \/ checking.pc = "idle" /\ HardDrop
  \/ checking.pc = "idle" /\ Reset
  \/ RotateCall
  \/ CheckReturn
  \/ RotateCommit

SpecCheck == Init /\ [][NextCheck]_vars

(***************************************************************************)
(* C17: is_valid_position changes neither the rotation of the piece, nor   *)
(* its anchor, nor the grid, at any point between its start and its        *)
(* return; called with a rotation, it never writes that rotation into the  *)
(* piece.                                                                  *)
(* Line 217 writes the rotation into the piece, and the piece holds it     *)
(* until the return, so this is violated.                                  *)
(***************************************************************************)
C17_CheckNeverWritesPiece ==
  [][(checking.pc = "idle" /\ checking'.pc = "cells") =>
       /\ current_piece'.rotation = current_piece.rotation
       /\ current_piece'.x = current_piece.x
       /\ current_piece'.y = current_piece.y
       /\ grid' = grid]_vars

(***************************************************************************)
(* C18: while the game is not over, the current piece is in a valid        *)
(* position (every cell inside the side walls, above the floor and on an   *)
(* empty cell), every cell of it has y >= 0, and its rotation is one of    *)
(* the 0 .. n - 1 states of its kind.                                      *)
(***************************************************************************)
C18_RunningPieceValid ==
  ~game_over =>
    /\ Legal(grid, get_cells(current_piece))
    /\ \A c \in get_cells(current_piece) : c[2] >= 0
    /\ current_piece.rotation \in 0..KindStates[current_piece.shape] - 1

(* A running game after a lock: the current piece, rotated to the last     *)
(* state of its kind and moved beside the stack, lies against an occupied  *)
(* cell on its right and rests on the floor or the stack.                  *)
C18_Witness ==
  /\ ~game_over
  /\ locks = 1
  /\ KindStates[current_piece.shape] > 1
  /\ current_piece.rotation = KindStates[current_piece.shape] - 1
  /\ \E c \in get_cells(current_piece) : CellAt(grid, c[1] + 1, c[2]) \notin {BLACK, "OUTSIDE"}
  /\ ~Legal(grid, CellsAt(current_piece, 0, 1, current_piece.rotation))

(***************************************************************************)
(* C19: once an operation has completed, no row of the grid is complete,   *)
(* every lock being followed by clear_lines.  Hence rows are cleared only  *)
(* by a lock (lines_cleared otherwise changes only by reset_game), the     *)
(* rows a lock clears are the complete rows of the grid with the piece     *)
(* written into it, they are at most 4, and each of them holds a cell of   *)
(* the piece just locked.                                                  *)
(***************************************************************************)
C19_NoCompleteRowRemains ==
  /\ FullRowsOf(grid) = {}
  /\ [][/\ FullRowsOf(grid') = {}
        /\ lines_cleared' # lines_cleared =>
             \/ ResetLines
             \/ /\ LockStepLines
                /\ LET full == FullRowsOf(Written(grid, current_piece))
                   IN  /\ lines_cleared' = lines_cleared + Cardinality(full)
                       /\ Cardinality(full) <= 4
                       /\ \A r \in full : \E c \in get_cells(current_piece) : c[2] = r - 1]_vars

(* The first clear of a game removed four rows at once: a fourth upright I *)
(* completed rows 2 to 5 and the grid is empty again.                      *)
C19_Witness ==
  /\ lines_cleared = 4
  /\ score = 400
  /\ Occupied(grid) = {}
  /\ fall_time = 0
  /\ AtSpawn(current_piece)

(***************************************************************************)
(* SpecFair: the game of Spec without reset_game, in which calls of update *)
(* that reach the fall interval keep occurring: run calls update(dt) once  *)
(* per frame with the time of the frame (lines 403 and 427), so fall_time  *)
(* reaches fall_speed again and again whatever keys are pressed.           *)
(***************************************************************************)
Gravity == \E dt \in Dts : interval_reached(fall_time + dt, fall_speed) /\ Tick(dt)

NextFair ==
  \/ \E dt \in Dts : Tick(dt)
  \/ Keys

SpecFair == Init /\ [][NextFair]_vars /\ WF_vars(Gravity)

(***************************************************************************)
(* C20: as long as a piece is current its y never decreases, whatever key  *)
(* is pressed, and an update of a running game that reaches the fall       *)
(* interval adds 1 to y or locks the piece; y stays at most                *)
(* GRID_HEIGHT - 2.  Hence, when such updates keep occurring, the current  *)
(* piece of a running game is locked after at most GRID_HEIGHT of them,    *)
(* whatever moves, rotations and drops are interleaved: locks only grows   *)
(* and game_over is set only by a lock, so every behaviour reaches         *)
(* game_over or the last of the MaxLocks locks explored.  And the game     *)
(* reaches game_over, without a row cleared, unless a key takes the        *)
(* current piece off the spawn column or rotates it: when no key is ever   *)
(* pressed every piece is locked in the spawn columns, which do not span a *)
(* row.                                                                    *)
(***************************************************************************)
C20_EveryPieceLocksAndGameEnds ==
  /\ [][/\ Keys => current_piece'.y >= current_piece.y
        /\ (~game_over /\ Gravity) =>
             \/ locks' = locks /\ current_piece'.y = current_piece.y + 1
             \/ locks' = locks + 1
        /\ ~game_over' => current_piece'.y \in 0..GRID_HEIGHT - 2]_vars
  /\ <>(game_over \/ locks = MaxLocks)
  /\ <>(\/ game_over /\ lines_cleared = 0
        \/ current_piece.x # SpawnX
        \/ current_piece.rotation # 0)

(* No key was pressed: two O pieces fell at the spawn anchor, the second   *)
(* was locked on the first, and the third cannot spawn.                    *)
C20_Witness ==
  /\ game_over
  /\ locks = 2
  /\ AtSpawn(current_piece)
  /\ Occupied(grid) = {SpawnX + 1, SpawnX + 2} \X (GRID_HEIGHT - 4..GRID_HEIGHT - 1)
====
